---- MODULE Spec2Model ----
(***************************************************************************)
(* Model of miniapp_api.py: the signed-payload check (verify_init_data),   *)
(* the users / payments tables in vpn_bot.db and the request handlers      *)
(* that read and write them.                                               *)
(***************************************************************************)
EXTENDS Integers, Sequences, FiniteSets, TLC

VARIABLES
    usersTable,     \* TRUE once CREATE TABLE users has run
    paymentsTable,  \* TRUE once CREATE TABLE payments has run
    users,          \* rows of table users
    payments,       \* rows of table payments
    seq,            \* sqlite_sequence value of payments (AUTOINCREMENT)
    pc,             \* per request thread: "idle" or "confirm" (between SELECT and UPDATE)
    loc,            \* per request thread: the row fetched by confirm_last_payment
    credited,       \* history: payment_id -> number of users rows its days were added to
    resp,           \* the last completed request and its response
    ntrue,          \* history: number of confirm_last_payment calls that returned True
    nreq,           \* number of requests received so far
    vin,            \* verify_init_data under test: its argument
    vout,           \* verify_init_data under test: its outcome
    tampered,       \* vin was obtained by changing one character of an accepted hash
    pin,            \* calc_amount under test: its arguments
    pout,           \* calc_amount under test: its result (-1 before the call)
    calls           \* balance calls under test: the calls invoked so far, in order of arrival

vars == <<usersTable, paymentsTable, users, payments, seq, pc, loc, credited,
          resp, ntrue, nreq, vin, vout, tampered, pin, pout, calls>>

dbvars == <<usersTable, paymentsTable, users, payments, seq, credited, ntrue>>
vvars  == <<vin, vout, tampered, pin, pout, calls>>

----------------------------------------------------------------------------
(* Configuration *)

BOOT_ADMIN == 251385778
BOT_TOKEN == 42
BASE_PRICE_30 == 75

AllowList == {BOOT_ADMIN}
DISCOUNT_BY_DAYS == [d \in {30, 60, 90} |-> CASE d = 30 -> 0 [] d = 60 -> 5 [] d = 90 -> 10]

UserIdSeq == <<1, BOOT_ADMIN>>
UserIds == {UserIdSeq[i] : i \in DOMAIN UserIdSeq}
NameSeq == <<"a", "b">>
Names == {NameSeq[i] : i \in DOMAIN NameSeq}
None == "None"

----------------------------------------------------------------------------
(* Strings are sequences of character codes. *)

HexBase == 16
HexLen == 2
EqChar == 16
NlChar == 17
KeyRank == [auth_date |-> 1, hash |-> 2, user |-> 3]
Keys == DOMAIN KeyRank
KeyChar(k) == 17 + KeyRank[k]

Max(a, b) == IF a >= b THEN a ELSE b

\* dict(parse_qsl(init_data)): a later pair with the same key replaces an earlier one
ToDict(pairs) ==
    LET ks == {pairs[i][1] : i \in DOMAIN pairs}
        last(k) == CHOOSE i \in DOMAIN pairs :
                      /\ pairs[i][1] = k
                      /\ \A j \in DOMAIN pairs : pairs[j][1] = k => j <= i
    IN [k \in ks |-> pairs[last(k)][2]]

\* data.pop('hash', None) leaves the other keys
PopHash(data) == [k \in DOMAIN data \ {"hash"} |-> data[k]]

RECURSIVE SortedKeys(_)
SortedKeys(ks) ==
    IF ks = {} THEN << >>
    ELSE LET m == CHOOSE k \in ks : \A o \in ks : KeyRank[k] <= KeyRank[o]
         IN <<m>> \o SortedKeys(ks \ {m})

RECURSIVE JoinLines(_, _)
JoinLines(data, ks) ==
    IF ks = << >> THEN << >>
    ELSE LET line == <<KeyChar(ks[1]), EqChar>> \o data[ks[1]]
         IN IF Len(ks) = 1 THEN line
            ELSE line \o <<NlChar>> \o JoinLines(data, Tail(ks))

\* "\n".join(f"{k}={v}" for k,v in sorted(data.items()))
DataCheckString(data) == JoinLines(data, SortedKeys(DOMAIN data))

RECURSIVE Mix(_, _)
Mix(h, s) == IF s = << >> THEN h
             ELSE Mix((h * 31 + s[1] + 1) % (HexBase * HexBase), Tail(s))

\* hmac.new(key, msg, sha256) as a keyed digest of HexLen hex characters
Hmac(key, msg) == Mix((key * 7 + 3) % (HexBase * HexBase), msg)
HexDigest(h) == <<h \div HexBase, h % HexBase>>

SecretKey(token) == Hmac(5, <<token % HexBase>>)
CalcHash(token, data) == HexDigest(Hmac(SecretKey(token), DataCheckString(data)))

\* a comparison that stops after the first character
CompareDigest_prefix(a, b) == a[1] = b[1]

\* hmac.compare_digest(a, b)
CompareDigest(a, b) == a = b

\* json.loads of the user field: <<i, n>> stands for {"id": UserIdSeq[i], "username": NameSeq[n]}
NoUser == [has_id |-> FALSE, id |-> 0, username |-> None]
JsonLoads(s) ==
    IF s = << >> THEN NoUser
    ELSE [has_id |-> TRUE, id |-> UserIdSeq[s[1]], username |-> NameSeq[s[2]]]

Unauthenticated == [status |-> 401, user |-> NoUser]

verify_init_data(init_data) ==
    IF init_data = << >> THEN Unauthenticated
    ELSE LET all == ToDict(init_data)
             hash_recv == IF "hash" \in DOMAIN all THEN all["hash"] ELSE << >>
             data == PopHash(all)
         IN IF hash_recv = << >> THEN Unauthenticated
            ELSE IF ~CompareDigest(CalcHash(BOT_TOKEN, data), hash_recv) THEN Unauthenticated
            ELSE [status |-> 200,
                  user |-> JsonLoads(IF "user" \in DOMAIN data THEN data["user"] ELSE << >>)]

----------------------------------------------------------------------------
(* The launcher's side: payloads as they arrive in X-Telegram-Init-Data *)

UserDoc(u, n) == <<CHOOSE i \in DOMAIN UserIdSeq : UserIdSeq[i] = u,
                   CHOOSE j \in DOMAIN NameSeq : NameSeq[j] = n>>
Body(u, n) == << <<"auth_date", <<1>> >>, <<"user", UserDoc(u, n)>> >>
Signed(token, body) == Append(body, <<"hash", CalcHash(token, ToDict(body))>>)
WrongToken == BOT_TOKEN + 1

\* payloads the request handlers are driven with: every identity correctly
\* signed, and one forged in the bootstrap administrator's name
InitDatas ==
    {Signed(BOT_TOKEN, Body(1, n)) : n \in Names}
    \cup {Signed(BOT_TOKEN, Body(BOOT_ADMIN, "a")), Signed(WrongToken, Body(BOOT_ADMIN, "a"))}

----------------------------------------------------------------------------
(* Bounds *)

MaxRequests == 3     \* requests received in one behaviour
MaxFields == 3       \* key=value pairs in a payload under test
MaxDays == 91        \* days passed to calc_amount under test
MaxSeats == 3        \* seats passed to calc_amount under test
MaxCalls == 3        \* balance calls under test

Threads == {"t1", "t2"}
AdminDays == {10}             \* DaysIn.days of add and sub
SetDays == {0 - 5}             \* DaysIn.days of set
BuyIns == {[days |-> 30, seats |-> 1], [days |-> 60, seats |-> 2]}   \* BuyIn
ProfileNames == {None, "b"}    \* ProfileIn.username

----------------------------------------------------------------------------
(* Storage helpers *)

\* round() with ties away from zero instead of ties to even
RoundHalfEven_halfup(n, d) ==
    LET q == n \div d
        r == n % d
    IN IF 2 * r < d THEN q ELSE q + 1

\* int(round(x)) for x = n / d >= 0: nearest integer, ties to even
RoundHalfEven(n, d) ==
    LET q == n \div d
        r == n % d
    IN IF 2 * r < d THEN q
       ELSE IF 2 * r > d THEN q + 1
       ELSE IF q % 2 = 0 THEN q ELSE q + 1

calc_amount(days, seats) ==
    LET disc == IF days \in DOMAIN DISCOUNT_BY_DAYS THEN DISCOUNT_BY_DAYS[days] ELSE 0
    IN RoundHalfEven(BASE_PRICE_30 * days * seats * (100 - disc), 30 * 100)

\* SELECT * FROM users WHERE user_id=?  (the set is empty or one row)
get_user(uid) == {r \in users : r.user_id = uid}

\* INSERT OR REPLACE in place of the upsert: the row is rebuilt from the defaults
get_or_create_user_replace(uid, username) ==
    {r \in users : r.user_id # uid}
        \cup {[user_id |-> uid, username |-> username, days_left |-> 0, is_admin |-> 0]}

\* INSERT INTO users(user_id, username) ... ON CONFLICT(user_id) DO UPDATE SET username
get_or_create_user(uid, username) ==
    IF get_user(uid) = {}
    THEN users \cup {[user_id |-> uid, username |-> username, days_left |-> 0, is_admin |-> 0]}
    ELSE {IF r.user_id = uid THEN [r EXCEPT !.username = username] ELSE r : r \in users}

\* the addition without MAX(0, ...)
ClampedAdd_unclamped(old, days) == old + days

\* MAX(0, COALESCE(days_left,0)) + ?
ClampedAdd(old, days) == Max(0, old) + days
\* MAX(0, COALESCE(days_left,0)) - ?
ClampedSub(old, days) == Max(0, old) - days

\* the read-modify-write done from the balance an earlier request read
add_days_stale(uid, days) ==
    {IF r.user_id = uid THEN [r EXCEPT !.days_left = ClampedAdd(resp.old, days)] ELSE r : r \in users}

\* UPDATE users SET days_left = MAX(0, COALESCE(days_left,0)) + ? WHERE user_id=?
add_days(uid, days) ==
    {IF r.user_id = uid THEN [r EXCEPT !.days_left = ClampedAdd(r.days_left, days)] ELSE r : r \in users}
sub_days(uid, days) ==
    {IF r.user_id = uid THEN [r EXCEPT !.days_left = ClampedSub(r.days_left, days)] ELSE r : r \in users}
\* the UPDATE without its WHERE clause
set_days_all(uid, days) ==
    {[r EXCEPT !.days_left = days] : r \in users}

\* UPDATE users SET days_left = ? WHERE user_id=?
set_days(uid, days) ==
    {IF r.user_id = uid THEN [r EXCEPT !.days_left = days] ELSE r : r \in users}

\* INSERT OR REPLACE INTO users(user_id, username): the other columns fall back to defaults
update_profile_replace(uid, username) ==
    {r \in users : r.user_id # uid}
        \cup {[user_id |-> uid, username |-> username, days_left |-> 0, is_admin |-> 0]}

\* UPDATE users SET username=COALESCE(?,username) WHERE user_id=?
update_profile(uid, username) ==
    {IF r.user_id = uid /\ username # None THEN [r EXCEPT !.username = username] ELSE r : r \in users}

\* the INSERT with the values of days and seats in each other's place
create_payment_swapped(uid, days, seats, amount) ==
    payments \cup {[payment_id |-> seq + 1, user_id |-> uid, days |-> seats, seats |-> days,
                    amount |-> amount, status |-> "pending"]}

\* payment ids numbered per user instead of by the table's sequence
create_payment_peruser(uid, days, seats, amount) ==
    payments \cup {[payment_id |-> Cardinality({p \in payments : p.user_id = uid}) + 1,
                    user_id |-> uid, days |-> days, seats |-> seats,
                    amount |-> amount, status |-> "pending"]}

\* INSERT INTO payments(user_id, days, seats, amount, comment): AUTOINCREMENT id, status 'pending'
create_payment(uid, days, seats, amount) ==
    payments \cup {[payment_id |-> seq + 1, user_id |-> uid, days |-> days, seats |-> seats,
                    amount |-> amount, status |-> "pending"]}

\* the SELECT with ORDER BY payment_id ASC
LastPending_oldest(uid) ==
    LET ps == {p \in payments : p.user_id = uid /\ p.status = "pending"}
    IN {p \in ps : \A o \in ps : o.payment_id >= p.payment_id}

\* SELECT ... WHERE user_id=? AND status='pending' ORDER BY payment_id DESC LIMIT 1
LastPending(uid) ==
    LET ps == {p \in payments : p.user_id = uid /\ p.status = "pending"}
    IN {p \in ps : \A o \in ps : o.payment_id <= p.payment_id}

\* the UPDATE with a misspelt status
mark_paid_typo(pid) ==
    {IF p.payment_id = pid THEN [p EXCEPT !.status = "payed"] ELSE p : p \in payments}

\* UPDATE payments SET status='paid' WHERE payment_id=?
mark_paid(pid) ==
    {IF p.payment_id = pid THEN [p EXCEPT !.status = "paid"] ELSE p : p \in payments}

\* ensure_admin: 500 when table users is missing, 403 when refused, 200 when passed
ensure_admin(uid) ==
    IF ~usersTable THEN 500
    ELSE IF \E row \in get_user(uid) : row.is_admin = 1 \/ uid \in AllowList THEN 200
    ELSE 403

Response(route, caller, target, days, status, ok) ==
    [route |-> route, caller |-> caller, target |-> target, days |-> days,
     old |-> 0, status |-> status, ok |-> ok]

\* days_left of uid as the request found it (0 without a row)
OldBal(uid) == IF get_user(uid) = {} THEN 0 ELSE (CHOOSE r \in get_user(uid) : TRUE).days_left

\* verify_init_data followed by int(u["id"]): the status and the caller's uid
Authenticate(init_data) ==
    LET v == verify_init_data(init_data)
    IN IF v.status # 200 THEN [status |-> 401, uid |-> 0]
       ELSE IF ~v.user.has_id THEN [status |-> 500, uid |-> 0]
       ELSE [status |-> 200, uid |-> v.user.id, username |-> v.user.username]


----------------------------------------------------------------------------
(* Initial states: vpn_bot.db is shared with the bot, which may or may not *)
(* have created the tables and an administrator row before the API runs.   *)

StoredAdmin == [user_id |-> 1, username |-> "a", days_left |-> 0, is_admin |-> 1]
NoResponse == Response("none", 0, 0, 0, 0, FALSE)
NoRow == [caller |-> 0, uid |-> 0, payment_id |-> 0, days |-> 0]
NotVerified == [status |-> 0, user |-> NoUser]
NoArgs == [days |-> 0, seats |-> 0]

Init ==
    /\ usersTable \in BOOLEAN
    /\ paymentsTable \in BOOLEAN
    /\ users \in (IF usersTable THEN {{}, {StoredAdmin}} ELSE {{}})
    /\ payments = {}
    /\ seq = 0
    /\ pc = [t \in Threads |-> "idle"]
    /\ loc = [t \in Threads |-> NoRow]
    /\ credited = << >>
    /\ resp = NoResponse
    /\ ntrue = 0
    /\ nreq = 0
    /\ vin = << >>
    /\ vout = NotVerified
    /\ tampered = FALSE
    /\ pin = NoArgs
    /\ pout = 0 - 1
    /\ calls = << >>

\* a request arrives
Receive ==
    /\ nreq < MaxRequests
    /\ nreq' = nreq + 1

----------------------------------------------------------------------------
(* User routes *)

\* GET /api/me
me(init_data) ==
    LET a == Authenticate(init_data)
    IN /\ Receive
       /\ IF a.status # 200
          THEN /\ resp' = Response("me", 0, 0, 0, a.status, FALSE)
               /\ UNCHANGED dbvars
          ELSE /\ usersTable' = TRUE
               /\ users' = get_or_create_user(a.uid, a.username)
               /\ resp' = Response("me", a.uid, 0, 0, 200, TRUE)
               /\ UNCHANGED <<paymentsTable, payments, seq, credited, ntrue>>
       /\ UNCHANGED <<pc, loc, vvars>>

\* POST /api/calc
calc(init_data, inp) ==
    LET a == verify_init_data(init_data)
    IN /\ Receive
       /\ resp' = IF a.status # 200 THEN Response("calc", 0, 0, 0, 401, FALSE)
                  ELSE Response("calc", 0, 0, calc_amount(inp.days, inp.seats), 200, TRUE)
       /\ UNCHANGED <<dbvars, pc, loc, vvars>>

\* POST /api/payment/create
payment_create(init_data, inp) ==
    LET a == Authenticate(init_data)
    IN /\ Receive
       /\ IF a.status # 200
          THEN /\ resp' = Response("payment_create", 0, 0, 0, a.status, FALSE)
               /\ UNCHANGED dbvars
          ELSE /\ paymentsTable' = TRUE
               /\ payments' = create_payment(a.uid, inp.days, inp.seats,
                                             calc_amount(inp.days, inp.seats))
               /\ seq' = seq + 1
               /\ credited' = credited @@ ((seq + 1) :> 0)
               /\ resp' = Response("payment_create", a.uid, 0, seq + 1, 200, TRUE)
               /\ UNCHANGED <<usersTable, users, ntrue>>
       /\ UNCHANGED <<pc, loc, vvars>>

\* GET /api/payments
list_payments(init_data) ==
    LET a == Authenticate(init_data)
    IN /\ Receive
       /\ resp' = IF a.status # 200 THEN Response("payments", 0, 0, 0, a.status, FALSE)
                  ELSE IF ~paymentsTable THEN Response("payments", a.uid, 0, 0, 500, FALSE)
                  ELSE Response("payments", a.uid, 0, 0, 200, TRUE)
       /\ UNCHANGED <<dbvars, pc, loc, vvars>>

\* POST /api/profile
profile(init_data, username) ==
    LET a == Authenticate(init_data)
    IN /\ Receive
       /\ IF a.status # 200
          THEN /\ resp' = Response("profile", 0, 0, 0, a.status, FALSE)
               /\ UNCHANGED users
          ELSE IF ~usersTable
          THEN /\ resp' = Response("profile", a.uid, 0, 0, 500, FALSE)
               /\ UNCHANGED users
          ELSE /\ users' = update_profile(a.uid, username)
               /\ resp' = Response("profile", a.uid, 0, 0, 200, TRUE)
       /\ UNCHANGED <<usersTable, paymentsTable, payments, seq, credited, ntrue, pc, loc, vvars>>

----------------------------------------------------------------------------
(* Admin routes *)

\* verify_init_data(x_init); ensure_admin(int(u["id"]))
AdminGate(init_data) ==
    LET a == Authenticate(init_data)
    IN IF a.status # 200 THEN a ELSE [a EXCEPT !.status = ensure_admin(a.uid)]

\* the mutation applied without waiting for ensure_admin
AdminMutation_ungated(route, init_data, user_id, days, rows) ==
    LET g == AdminGate(init_data)
    IN /\ Receive
       /\ users' = rows
       /\ resp' = IF g.status # 200 THEN Response(route, g.uid, 0, 0, g.status, FALSE)
                  ELSE [Response(route, g.uid, user_id, days, 200, TRUE)
                            EXCEPT !.old = OldBal(user_id)]
       /\ UNCHANGED <<usersTable, paymentsTable, payments, seq, credited, ntrue, pc, loc, vvars>>

\* the shape shared by admin_add, admin_sub and admin_set
AdminMutation(route, init_data, user_id, days, rows) ==
    LET g == AdminGate(init_data)
    IN /\ Receive
       /\ IF g.status # 200
          THEN /\ resp' = Response(route, g.uid, 0, 0, g.status, FALSE)
               /\ UNCHANGED users
          ELSE /\ users' = rows
               /\ resp' = [Response(route, g.uid, user_id, days, 200, TRUE)
                            EXCEPT !.old = OldBal(user_id)]
       /\ UNCHANGED <<usersTable, paymentsTable, payments, seq, credited, ntrue, pc, loc, vvars>>

\* POST /api/admin/user/{user_id}/add
admin_add(init_data, user_id, days) ==
    AdminMutation("add", init_data, user_id, days, add_days(user_id, days))

\* POST /api/admin/user/{user_id}/sub
admin_sub(init_data, user_id, days) ==
    AdminMutation("sub", init_data, user_id, days, sub_days(user_id, days))

\* POST /api/admin/user/{user_id}/set
admin_set(init_data, user_id, days) ==
    AdminMutation("set", init_data, user_id, days, set_days(user_id, days))

\* POST /api/admin/user/{user_id}/confirm_last_payment, up to r = cur.fetchone():
\* the SELECT runs outside any transaction, the UPDATEs open one
confirm_select(t, g, user_id) ==
    LET r == LastPending(user_id)
    IN /\ pc[t] = "idle"
       /\ Receive
       /\ IF g.status # 200
          THEN /\ resp' = Response("confirm", g.uid, 0, 0, g.status, FALSE)
               /\ UNCHANGED <<pc, loc>>
          ELSE IF ~paymentsTable
          THEN /\ resp' = Response("confirm", g.uid, user_id, 0, 500, FALSE)
               /\ UNCHANGED <<pc, loc>>
          ELSE IF r = {}
          THEN /\ resp' = Response("confirm", g.uid, user_id, 0, 200, FALSE)
               /\ UNCHANGED <<pc, loc>>
          ELSE /\ pc' = [pc EXCEPT ![t] = "confirm"]
               /\ loc' = [loc EXCEPT ![t] =
                            LET p == CHOOSE p \in r : TRUE
                            IN [caller |-> g.uid, uid |-> user_id,
                                payment_id |-> p.payment_id, days |-> p.days]]
               /\ UNCHANGED resp
       /\ UNCHANGED <<dbvars, vvars>>

\* g is the outcome of verify_init_data and ensure_admin for the request
admin_confirm_select(t, init_data, user_id) ==
    confirm_select(t, AdminGate(init_data), user_id)

\* the two UPDATEs of confirm_last_payment and the commit on leaving `with`
admin_confirm_update(t) ==
    /\ pc[t] = "confirm"
    /\ payments' = mark_paid(loc[t].payment_id)
    /\ users' = add_days(loc[t].uid, loc[t].days)
    /\ credited' = [credited EXCEPT ![loc[t].payment_id] =
                        @ + Cardinality(get_user(loc[t].uid))]
    /\ ntrue' = ntrue + 1
    /\ resp' = [Response("confirm", loc[t].caller, loc[t].uid, loc[t].days, 200, TRUE)
                 EXCEPT !.old = OldBal(loc[t].uid)]
    /\ pc' = [pc EXCEPT ![t] = "idle"]
    /\ loc' = [loc EXCEPT ![t] = NoRow]
    /\ UNCHANGED <<usersTable, paymentsTable, seq, nreq, vvars>>

\* an UPDATE raises (sqlite3.OperationalError): `with` rolls the transaction back
admin_confirm_fail(t) ==
    /\ pc[t] = "confirm"
    /\ resp' = Response("confirm", loc[t].caller, loc[t].uid, loc[t].days, 500, FALSE)
    /\ pc' = [pc EXCEPT ![t] = "idle"]
    /\ loc' = [loc EXCEPT ![t] = NoRow]
    /\ UNCHANGED <<dbvars, nreq, vvars>>

Next ==
    \/ \E i \in InitDatas : me(i)
    \/ \E i \in InitDatas, inp \in BuyIns : calc(i, inp)
    \/ \E i \in InitDatas, inp \in BuyIns : payment_create(i, inp)
    \/ \E i \in InitDatas : list_payments(i)
    \/ \E i \in InitDatas, n \in ProfileNames : profile(i, n)
    \/ \E i \in InitDatas, u \in UserIds, d \in AdminDays : admin_add(i, u, d)
    \/ \E i \in InitDatas, u \in UserIds, d \in AdminDays : admin_sub(i, u, d)
    \/ \E i \in InitDatas, u \in UserIds, d \in SetDays : admin_set(i, u, d)
    \/ \E t \in Threads, i \in InitDatas, u \in UserIds : admin_confirm_select(t, i, u)
    \/ \E t \in Threads : admin_confirm_update(t)
    \/ \E t \in Threads : admin_confirm_fail(t)

Spec == Init /\ [][Next]_vars

----------------------------------------------------------------------------
(* verify_init_data on its own: every payload of up to MaxFields pairs.    *)

TestDocs == {UserDoc(1, "a"), UserDoc(BOOT_ADMIN, "b")}
TestBodies ==
    {<< >>} \cup {<< <<"user", d>> >> : d \in TestDocs}
            \cup {<< <<"auth_date", <<1>> >>, <<"user", d>> >> : d \in TestDocs}
TestHashes ==
    {CalcHash(tok, ToDict(b)) : tok \in {BOT_TOKEN, WrongToken}, b \in TestBodies} \cup {<< >>}
TestFields ==
    {<<"auth_date", <<1>> >>} \cup {<<"user", d>> : d \in TestDocs}
                              \cup {<<"hash", h>> : h \in TestHashes}
Payloads == UNION {[1..n -> TestFields] : n \in 0..MaxFields}

\* the payload with character i of its effective hash field replaced by c
FlipHash(pairs, i, c) ==
    LET last == CHOOSE k \in DOMAIN pairs :
                    /\ pairs[k][1] = "hash"
                    /\ \A j \in DOMAIN pairs : pairs[j][1] = "hash" => j <= k
    IN [pairs EXCEPT ![last] = <<"hash", [pairs[last][2] EXCEPT ![i] = c]>>]

VInit ==
    /\ usersTable = FALSE
    /\ paymentsTable = FALSE
    /\ users = {}
    /\ payments = {}
    /\ seq = 0
    /\ pc = [t \in Threads |-> "idle"]
    /\ loc = [t \in Threads |-> NoRow]
    /\ credited = << >>
    /\ resp = NoResponse
    /\ ntrue = 0
    /\ nreq = 0
    /\ vin \in Payloads
    /\ vout = NotVerified
    /\ tampered = FALSE
    /\ pin = NoArgs
    /\ pout = 0 - 1
    /\ calls = << >>

Verify ==
    /\ vout = NotVerified
    /\ vout' = verify_init_data(vin)
    /\ UNCHANGED <<dbvars, pc, loc, resp, nreq, vin, tampered, pin, pout, calls>>

Tamper ==
    /\ vout.status = 200
    /\ ~tampered
    /\ \E i \in 1..HexLen, c \in 0..(HexBase - 1) :
          /\ c # ToDict(vin)["hash"][i]
          /\ vin' = FlipHash(vin, i, c)
    /\ vout' = NotVerified
    /\ tampered' = TRUE
    /\ UNCHANGED <<dbvars, pc, loc, resp, nreq, pin, pout, calls>>

VNext == Verify \/ Tamper

VSpec == VInit /\ [][VNext]_vars

----------------------------------------------------------------------------
(* calc_amount on its own: every days in 0..MaxDays and seats in 0..MaxSeats *)

PInit ==
    /\ usersTable = FALSE
    /\ paymentsTable = FALSE
    /\ users = {}
    /\ payments = {}
    /\ seq = 0
    /\ pc = [t \in Threads |-> "idle"]
    /\ loc = [t \in Threads |-> NoRow]
    /\ credited = << >>
    /\ resp = NoResponse
    /\ ntrue = 0
    /\ nreq = 0
    /\ vin = << >>
    /\ vout = NotVerified
    /\ tampered = FALSE
    /\ pin \in [days : 0..MaxDays, seats : 0..MaxSeats]
    /\ pout = 0 - 1
    /\ calls = << >>

Price ==
    /\ pout = 0 - 1
    /\ pout' = calc_amount(pin.days, pin.seats)
    /\ UNCHANGED <<dbvars, pc, loc, resp, nreq, vin, vout, tampered, pin, calls>>

PNext == Price

PSpec == PInit /\ [][PNext]_vars

----------------------------------------------------------------------------
(* admin_add, admin_sub and admin_set in concurrent request threads: each  *)
(* call passes ensure_admin, then runs its one UPDATE statement.           *)

BalanceOps == {"add", "sub", "set"}
BalanceCalls ==
    {[op |-> "add", uid |-> u, days |-> 10] : u \in UserIds}
        \cup {[op |-> "sub", uid |-> u, days |-> 10] : u \in UserIds}
        \cup {[op |-> "set", uid |-> u, days |-> 0 - 5] : u \in UserIds}

BInit ==
    /\ usersTable = TRUE
    /\ paymentsTable = FALSE
    /\ users = {StoredAdmin,
                [user_id |-> BOOT_ADMIN, username |-> "a", days_left |-> 0, is_admin |-> 0]}
    /\ payments = {}
    /\ seq = 0
    /\ pc = [t \in Threads |-> "idle"]
    /\ loc = [t \in Threads |-> NoRow]
    /\ credited = << >>
    /\ resp = NoResponse
    /\ ntrue = 0
    /\ nreq = 0
    /\ vin = << >>
    /\ vout = NotVerified
    /\ tampered = FALSE
    /\ pin = NoArgs
    /\ pout = 0 - 1
    /\ calls = << >>

\* admin_add / admin_sub / admin_set up to the return of ensure_admin
balance_call(t, init_data, c) ==
    LET g == AdminGate(init_data)
    IN /\ pc[t] = "idle"
       /\ Len(calls) < MaxCalls
       /\ IF g.status # 200
          THEN /\ resp' = Response(c.op, g.uid, 0, 0, g.status, FALSE)
               /\ UNCHANGED <<pc, loc, calls>>
          ELSE /\ pc' = [pc EXCEPT ![t] = c.op]
               /\ loc' = [loc EXCEPT ![t] = [caller |-> g.uid, uid |-> c.uid,
                                             payment_id |-> 0, days |-> c.days]]
               /\ calls' = Append(calls, c)
               /\ UNCHANGED resp
       /\ UNCHANGED <<dbvars, nreq, vin, vout, tampered, pin, pout>>

\* add_days / sub_days / set_days: the UPDATE statement and the commit
balance_update(t) ==
    /\ pc[t] \in BalanceOps
    /\ users' = CASE pc[t] = "add" -> add_days(loc[t].uid, loc[t].days)
                  [] pc[t] = "sub" -> sub_days(loc[t].uid, loc[t].days)
                  [] pc[t] = "set" -> set_days(loc[t].uid, loc[t].days)
    /\ resp' = [Response(pc[t], loc[t].caller, loc[t].uid, loc[t].days, 200, TRUE)
                 EXCEPT !.old = OldBal(loc[t].uid)]
    /\ pc' = [pc EXCEPT ![t] = "idle"]
    /\ loc' = [loc EXCEPT ![t] = NoRow]
    /\ UNCHANGED <<usersTable, paymentsTable, payments, seq, credited, ntrue, nreq, vvars>>

BNext ==
    \/ \E t \in Threads, i \in InitDatas, c \in BalanceCalls : balance_call(t, i, c)
    \/ \E t \in Threads : balance_update(t)

BSpec == BInit /\ [][BNext]_vars

----------------------------------------------------------------------------
(* admin_confirm called again and again, one call after the other, by the  *)
(* stored administrator for a user whose payments are all pending.         *)

\* the payments user owner created by the purchases buys, none confirmed yet
PendingOf(owner, buys) ==
    {[payment_id |-> i, user_id |-> owner, days |-> buys[i].days, seats |-> buys[i].seats,
      amount |-> calc_amount(buys[i].days, buys[i].seats), status |-> "pending"]
        : i \in DOMAIN buys}

DInit ==
    /\ usersTable = TRUE
    /\ paymentsTable = TRUE
    /\ users \in {{StoredAdmin},
                  {StoredAdmin, [user_id |-> BOOT_ADMIN, username |-> "a",
                                 days_left |-> 0, is_admin |-> 0]}}
    /\ \E owner \in UserIds, k \in 1..(MaxRequests - 1) :
          \E buys \in [1..k -> BuyIns] : payments = PendingOf(owner, buys)
    /\ seq = Cardinality(payments)
    /\ pc = [t \in Threads |-> "idle"]
    /\ loc = [t \in Threads |-> NoRow]
    /\ credited = [i \in 1..seq |-> 0]
    /\ resp = NoResponse
    /\ ntrue = 0
    /\ nreq = 0
    /\ vin = << >>
    /\ vout = NotVerified
    /\ tampered = FALSE
    /\ pin = NoArgs
    /\ pout = 0 - 1
    /\ calls = << >>

\* the next call, its payload verified, starts when the previous one has returned
confirm_call(t) ==
    /\ \A s \in Threads : pc[s] = "idle"
    /\ \E p \in payments :
          confirm_select(t, [status |-> ensure_admin(StoredAdmin.user_id),
                             uid |-> StoredAdmin.user_id,
                             username |-> StoredAdmin.username], p.user_id)

DNext ==
    \/ \E t \in Threads : confirm_call(t)
    \/ \E t \in Threads : admin_confirm_update(t)

\* the administrator keeps calling and the server keeps serving
DSpec == DInit /\ [][DNext]_vars /\ WF_vars(DNext)

----------------------------------------------------------------------------
(* Properties *)

AdminRoutes == {"add", "sub", "set", "confirm"}
Paid == {p \in payments : p.status = "paid"}
Pending == {p \in payments : p.status = "pending"}

\* this step received a request and answered it
Answered == nreq' = nreq + 1 /\ pc' = pc
\* this step is the UPDATE half of confirm_last_payment in thread t
Updated(t) == pc[t] = "confirm" /\ pc'[t] = "idle" /\ resp'.status = 200

\* C1: confirmLast is all-or-nothing: in every reachable state a payment is
\* paid exactly when its days have been credited to its owner's days_left.
C1_AllOrNothing ==
    \A p \in payments : (p.status = "paid") <=> (credited[p.payment_id] >= 1)

\* C2: each payment is confirmed exactly once: its days are credited at most
\* once, and the calls that returned true are as many as the paid payments.
C2_ConfirmedOnce ==
    /\ \A p \in payments : credited[p.payment_id] <= 1
    /\ ntrue = Cardinality(Paid)

\* C3: payment status is monotone: every status is pending or paid, a paid
\* payment stays paid, and no payment ever leaves the ledger.
C3_StatusMonotone ==
    [][ /\ \A q \in payments' : q.status \in {"pending", "paid"}
        /\ \A p \in payments : \E q \in payments' :
              /\ q.payment_id = p.payment_id
              /\ (p.status = "paid" => q.status = "paid") ]_vars

\* a payment was confirmed and another request was served after that
C3_Witness == Paid # {} /\ resp.route = "payment_create" /\ resp.status = 200

\* C4: confirmLast is LIFO: it marks paid exactly the user's pending payment
\* with the greatest payment_id, credits exactly that payment's days to the
\* user, and leaves every other payment as it was.
C4_Lifo ==
    [][ \A t \in Threads : Updated(t) =>
          \E p \in LastPending(loc[t].uid) :
              /\ payments' = (payments \ {p}) \cup {[p EXCEPT !.status = "paid"]}
              /\ \E r \in users' : /\ r.user_id = loc[t].uid
                                   /\ r.days_left = Max(0, OldBal(loc[t].uid)) + p.days ]_vars

\* C5: confirmLast on a user without a pending payment returns false as a
\* normal result and changes no payment and no user.
C5_NoPendingIsFalse ==
    [][ (Answered /\ resp'.route = "confirm" /\ resp'.target # 0) =>
          /\ resp'.status = 200
          /\ resp'.ok = FALSE
          /\ users' = users
          /\ payments' = payments ]_vars

\* days_left of uid after the step
NewBal(uid) == (CHOOSE r \in users' : r.user_id = uid).days_left
\* an add, sub or set request that passed the gate and found the target's row
Mutated(route) ==
    /\ Answered
    /\ resp'.route = route
    /\ resp'.status = 200
    /\ get_user(resp'.target) # {}

\* C6 as stated: new = max(0, old) + delta for addDays and confirmLast,
\* max(0, old) - delta for subDays, and old = -5, addDays 10 gives 5.
C6_AsStated ==
    [][ /\ Mutated("add") =>
              /\ NewBal(resp'.target) = Max(0, OldBal(resp'.target)) + resp'.days
              /\ (OldBal(resp'.target) = 0 - 5 /\ resp'.days = 10 => NewBal(resp'.target) = 5)
        /\ Mutated("sub") =>
              NewBal(resp'.target) = Max(0, OldBal(resp'.target)) - resp'.days
        /\ \A t \in Threads : Updated(t) /\ get_user(loc[t].uid) # {} =>
              NewBal(loc[t].uid) = Max(0, OldBal(loc[t].uid)) + loc[t].days ]_vars

\* C6 amended: new = max(0, old) + delta for addDays and for the credit of
\* confirmLast, max(0, old) - delta for subDays, with no floor on the result;
\* old = -5, addDays 10 gives 10.
C6_ClampedMutation ==
    [][ /\ Mutated("add") =>
              /\ NewBal(resp'.target) = Max(0, OldBal(resp'.target)) + resp'.days
              /\ (OldBal(resp'.target) = 0 - 5 /\ resp'.days = 10 => NewBal(resp'.target) = 10)
        /\ Mutated("sub") =>
              NewBal(resp'.target) = Max(0, OldBal(resp'.target)) - resp'.days
        /\ \A t \in Threads : Updated(t) /\ get_user(loc[t].uid) # {} =>
              NewBal(loc[t].uid) = Max(0, OldBal(loc[t].uid)) + loc[t].days ]_vars

\* addDays 10 was applied to a balance of -5
C6_Witness ==
    /\ resp.route = "add" /\ resp.status = 200
    /\ resp.old = 0 - 5 /\ resp.days = 10
    /\ \E r \in users : r.user_id = resp.target /\ r.days_left = 10

\* C7: getOrCreate creates the user with days_left 0 and is_admin 0 when there
\* is none, otherwise changes only the username; afterwards exactly one row
\* has that user_id, and no other row has changed.
C7_GetOrCreate ==
    [][ (Answered /\ resp'.route = "me" /\ resp'.status = 200) =>
          LET u == resp'.caller
          IN /\ Cardinality({r \in users' : r.user_id = u}) = 1
             /\ get_user(u) = {} =>
                   \E r \in users' : r.user_id = u /\ r.days_left = 0 /\ r.is_admin = 0
             /\ \A r \in users : \E q \in users' :
                   /\ q.user_id = r.user_id
                   /\ q.days_left = r.days_left
                   /\ q.is_admin = r.is_admin
                   /\ (r.user_id # u => q = r)
             /\ \E i \in InitDatas, q \in users' :
                   /\ Authenticate(i).status = 200 /\ Authenticate(i).uid = u
                   /\ q.user_id = u /\ q.username = Authenticate(i).username
             /\ {r \in users' : r.user_id # u} = {r \in users : r.user_id # u}
             /\ payments' = payments ]_vars

\* getOrCreate renamed an administrator whose balance is not zero
C7_Witness ==
    /\ resp.route = "me" /\ resp.status = 200
    /\ \E r \in users : /\ r.user_id = resp.caller /\ r.username = "b"
                        /\ r.days_left # 0 /\ r.is_admin = 1

\* C8: with the users table in place, an authenticated caller of an admin
\* route passes ensureAdmin when its is_admin flag is set or its user_id is on
\* the allow-list, and is answered 403 otherwise.
C8_EnsureAdmin ==
    [][ (Answered /\ resp'.route \in AdminRoutes /\ resp'.caller # 0 /\ usersTable) =>
          LET c == resp'.caller
              allowed == c \in AllowList \/ \E r \in get_user(c) : r.is_admin = 1
          IN /\ allowed => resp'.status # 403
             /\ ~allowed => resp'.status = 403 ]_vars

\* a balance or a payment status differs across the step
EntitlementChanged ==
    \/ \E r \in users, q \in users' : q.user_id = r.user_id /\ q.days_left # r.days_left
    \/ \E p \in payments, q \in payments' : q.payment_id = p.payment_id /\ q.status # p.status

\* C9: a request answered 401 or 403 changes nothing in either table, and a
\* balance or a payment status changes only in an admin-route request whose
\* payload verified and whose caller is an administrator.
C9_AdminOnly ==
    [][ /\ (Answered /\ resp'.status \in {401, 403}) =>
              UNCHANGED <<usersTable, paymentsTable, users, payments, seq>>
        /\ EntitlementChanged =>
              /\ resp'.route \in AdminRoutes
              /\ resp'.status = 200
              /\ \E i \in InitDatas : /\ verify_init_data(i).status = 200
                                      /\ verify_init_data(i).user.id = resp'.caller
              /\ \E r \in get_user(resp'.caller) :
                    r.is_admin = 1 \/ resp'.caller \in AllowList ]_vars

\* a caller without the right was answered 403 while a balance was not zero
C9_Witness ==
    /\ resp.route = "add" /\ resp.status = 403
    /\ resp.caller \notin AllowList
    /\ \E r \in users : r.days_left # 0

DiscountPct(days) == CASE days = 60 -> 5 [] days = 90 -> 10 [] OTHER -> 0

\* a is the integer nearest to (75/30) * days * seats * (1 - discount), the
\* even one of the two when they are equally near
IsPrice(a, days, seats) ==
    LET num == 75 * days * seats * (100 - DiscountPct(days))
        den == 3000
        diff == den * a - num
    IN /\ 2 * diff <= den
       /\ 2 * diff >= 0 - den
       /\ (2 * diff = den \/ 2 * diff = 0 - den) => a % 2 = 0

\* C11: price(days, seats) is the nearest integer, ties to even, of
\* (75/30) * days * seats * (1 - discount(days)); price(30,1) = 75,
\* price(60,1) = 142, price(90,1) = 202 and price(0,n) = 0.
C11_Price ==
    pout # 0 - 1 =>
        /\ IsPrice(pout, pin.days, pin.seats)
        /\ (pin.days = 30 /\ pin.seats = 1) => pout = 75
        /\ (pin.days = 60 /\ pin.seats = 1) => pout = 142
        /\ (pin.days = 90 /\ pin.seats = 1) => pout = 202
        /\ pin.days = 0 => pout = 0

\* the price of 60 days for one seat, an exact tie between 142 and 143, was computed
C11_Witness == pin.days = 60 /\ pin.seats = 1 /\ pout = 142

\* this step answered a purchase request with a new payment
Created == Answered /\ resp'.route = "payment_create" /\ resp'.status = 200

\* C12: a payment creation adds exactly one payment, pending, whose payment_id
\* is greater than that of every payment created before it for any user, and
\* changes no existing payment and no user.
C12_CreateAddsOne ==
    [][ Created =>
          /\ \E p \in payments' :
                /\ p \notin payments
                /\ payments' = payments \cup {p}
                /\ p.status = "pending"
                /\ p.user_id = resp'.caller
                /\ \A q \in payments : q.payment_id < p.payment_id
          /\ Cardinality(payments') = Cardinality(payments) + 1
          /\ \A p, q \in payments' : p.payment_id = q.payment_id => p = q
          /\ users' = users ]_vars

\* the second of two payments of different users was created
C12_Witness ==
    /\ resp.route = "payment_create" /\ resp.status = 200
    /\ \E p, q \in payments : /\ p.user_id # q.user_id
                              /\ p.payment_id < q.payment_id
                              /\ q.user_id = resp.caller

\* C13: every payment's user_id is the user_id of an existing User record.
C13_ReferentialIntegrity ==
    \A p \in payments : \E r \in users : r.user_id = p.user_id

\* the orders in which n calls can be applied one after another
Orders(n) == {f \in [1..n -> 1..n] : \A i, j \in 1..n : f[i] = f[j] => i = j}

\* the balance one call leaves, given the balance it finds
Apply(c, bal) ==
    CASE c.op = "add" -> Max(0, bal) + c.days
      [] c.op = "sub" -> Max(0, bal) - c.days
      [] c.op = "set" -> c.days

\* the balance after the calls cs applied to a balance of 0 in the given order
SerialResult(cs, order) ==
    LET after[i \in 0..Len(cs)] == IF i = 0 THEN 0 ELSE Apply(cs[order[i]], after[i - 1])
    IN after[Len(cs)]

CallsOn(u) == SelectSeq(calls, LAMBDA c : c.uid = u)

\* C14: once concurrent addDays, subDays and setDays calls have all returned,
\* each user's days_left is what those calls on that user give when applied
\* one after another in some order.
C14_NoLostUpdate ==
    (\A t \in Threads : pc[t] = "idle") =>
        \A u \in UserIds :
            \E order \in Orders(Len(CallsOn(u))) :
                OldBal(u) = SerialResult(CallsOn(u), order)

\* set -5 arrived before add 10 on the same user, yet took effect after it
C14_Witness ==
    /\ \A t \in Threads : pc[t] = "idle"
    /\ \E u \in UserIds :
          /\ Len(CallsOn(u)) = 2
          /\ CallsOn(u)[1].op = "set" /\ CallsOn(u)[2].op = "add"
          /\ OldBal(u) = 0 - 5

\* C16: every payment's amount is the price of its own days and seats, and
\* no step changes the user_id, days, seats or amount of an existing payment.
C16_AmountFixed ==
    [][ /\ \A p \in payments' : IsPrice(p.amount, p.days, p.seats)
        /\ \A p \in payments : \E q \in payments' :
              /\ q.payment_id = p.payment_id
              /\ q.user_id = p.user_id
              /\ q.days = p.days
              /\ q.seats = p.seats
              /\ q.amount = p.amount ]_vars

\* a payment of 60 days for 2 seats was created at 285 and then confirmed
C16_Witness ==
    /\ resp.route = "confirm" /\ resp.ok
    /\ \E p \in Paid : p.days = 60 /\ p.seats = 2 /\ p.amount = 285

\* the user_id this step's operation is addressed to (0: none)
Addressed ==
    IF \E t \in Threads : pc[t] = "confirm" /\ pc'[t] = "idle"
    THEN loc[CHOOSE t \in Threads : pc[t] = "confirm" /\ pc'[t] = "idle"].uid
    ELSE IF resp'.route \in AdminRoutes THEN resp'.target
    ELSE resp'.caller

\* C17: an operation addressed to one user leaves every other user's row
\* (days_left, is_admin, username) and every other user's payments unchanged.
C17_Isolation ==
    [][ /\ \A r \in users : r.user_id # Addressed => r \in users'
        /\ \A p \in payments : p.user_id # Addressed => p \in payments' ]_vars

\* one user's payment was confirmed while another user's is pending
C17_Witness ==
    /\ resp.route = "confirm" /\ resp.ok
    /\ \E p \in Pending : p.user_id # resp.target
    /\ \E r \in users : r.user_id # resp.target

\* C18: no step changes the is_admin of a user, and days_left changes only
\* in addDays, subDays, setDays or confirmLast called by a caller who passes
\* ensure_admin; me, calc, payment/create, payments and profile never change it.
C18_NoSelfService ==
    [][ /\ \A r \in users : \A q \in users' :
              q.user_id = r.user_id => q.is_admin = r.is_admin
        /\ (\E r \in users, q \in users' :
               q.user_id = r.user_id /\ q.days_left # r.days_left) =>
              \/ /\ Answered
                 /\ resp'.route \in {"add", "sub", "set"}
                 /\ ensure_admin(resp'.caller) = 200
              \/ \E t \in Threads : Updated(t) /\ ensure_admin(loc[t].caller) = 200 ]_vars

\* an administrator with a non-zero balance changed the own profile
C18_Witness ==
    /\ resp.route = "profile" /\ resp.status = 200
    /\ \E r \in users : /\ r.user_id = resp.caller
                        /\ r.is_admin = 1
                        /\ r.days_left # 0
                        /\ r.username = "b"

\* confirm_last_payment calls between their SELECT and their UPDATE
InFlight == {t \in Threads : pc[t] = "confirm"}

\* C19: with k pending payments of a user and no further creation, the first
\* k successive confirmLast calls each return true, each confirming a payment
\* with a greater payment_id than every payment still pending; every later
\* call returns false; and eventually no payment is pending.
C19_Drain ==
    /\ [](ntrue + Cardinality(InFlight)
            = IF nreq < Cardinality(payments) THEN nreq ELSE Cardinality(payments))
    /\ [][ /\ \A t \in Threads : Updated(t) =>
                 /\ resp'.ok
                 /\ \E p \in Pending : p.payment_id = loc[t].payment_id
                 /\ \A q \in Pending' : q.payment_id < loc[t].payment_id
           /\ (Answered /\ resp'.route = "confirm") =>
                 /\ resp'.status = 200
                 /\ resp'.ok = FALSE
                 /\ Pending = {} ]_vars
    /\ <>[](Pending = {})

\* two payments were confirmed and the third call returned false
C19_Witness ==
    /\ Cardinality(Paid) = 2 /\ Pending = {}
    /\ ntrue = 2
    /\ resp.route = "confirm" /\ resp.status = 200 /\ resp.ok = FALSE

\* C20: no step removes a users row, a row appears only in a served /api/me,
\* and addDays, subDays, setDays, confirmLast and the profile update addressed
\* to a user_id without a row leave table users as it is and report success.
C20_UsersOnlyGrow ==
    [][ /\ \A r \in users : \E q \in users' : q.user_id = r.user_id
        /\ (\E q \in users' : get_user(q.user_id) = {}) =>
              (Answered /\ resp'.route = "me" /\ resp'.status = 200)
        /\ (Answered /\ resp'.route = "profile" /\ resp'.caller # 0
                     /\ get_user(resp'.caller) = {}) =>
              (users' = users /\ resp'.status = 200)
        /\ (Answered /\ resp'.route \in AdminRoutes /\ resp'.target # 0
                     /\ get_user(resp'.target) = {}) =>
              (users' = users /\ resp'.status = 200)
        /\ \A t \in Threads : (Updated(t) /\ get_user(loc[t].uid) = {}) =>
              users' = users ]_vars

====
